---- MODULE Spec2Model ----
(***************************************************************************)
(* Worst-case stack analysis of scripts/ci/analyze_stack.py.               *)
(*                                                                         *)
(* The state is one CallGraph object (functions, calls) and the recursion  *)
(* of CallGraph.worst_case_stack, kept as an explicit call stack: one      *)
(* frame per active invocation, one step per loop iteration or return.     *)
(* A callee set is a Python set: it is kept as a duplicate-free sequence,  *)
(* the set together with the order in which iterating it yields its        *)
(* elements.                                                               *)
(***************************************************************************)
EXTENDS Integers, Sequences, FiniteSets, TLC

VARIABLES functions, calls, pc, stack, result, memo, entry_points, edges, log,
          before, su_file, lineno, usages, sources, scan, main

\* functions, calls: the CallGraph object.  pc, stack: the recursion of
\* worst_case_stack.  result, memo, entry_points: the answers the caller
\* holds.  edges: every (caller, callee) pair add_call has been given.
\* log: the add_function and add_call invocations in the order they were
\* made (kept by BuildSpec only).  before: the answer the caller held for
\* an entry point when that entry point was given a new callee (kept by
\* MonoSpec only).  su_file, lineno, usages: the lines of the .su file
\* parse_su_file reads, how many of them its loop has consumed, and its
\* list of records (ParseSpec only).
parser_vars == <<su_file, lineno, usages>>

\* sources: the contents of the .c files build_call_graph_from_source reads;
\* scan: which file its outer loop is at and how many function definitions
\* of that file it has gone through.
builder_vars == <<sources, scan>>

graph_vars ==
    <<functions, calls, pc, stack, result, memo, entry_points, edges, log, before>>

vars == <<graph_vars, parser_vars, builder_vars, main>>

(***************************************************************************)
(* Bounds of the model.                                                    *)
(***************************************************************************)
\* Largest number of caller->callee edges the graph is grown to.
MaxEdges == 3

\* Largest number of add_function and add_call invocations BuildSpec logs.
MaxOps == 3

\* Largest number of lines in the .su file ParseSpec reads.
MaxLines == 3

\* Largest number of function definitions in the sources SourceSpec scans.
MaxFuncs == 2

\* Largest number of .su files a run of main finds.
MaxFiles == 2

\* Function names that occur as callers, callees and entry points.
FuncNames == {"a", "b", "c"}

\* Depth at which the interpreter gives up a recursion (RecursionError);
\* deeper than any walk over FuncNames that names no function twice.
RecursionLimit == Cardinality(FuncNames) + 2

(***************************************************************************)
(* StackUsage records the parser can hand to add_function.  Two records    *)
(* carry the name "c" (same name in two files), one of them with a frame   *)
(* of 0 bytes; the second record named "b" is what the parser makes of a   *)
(* line whose byte field reads -8.                                         *)
(***************************************************************************)
StackUsage(fn, file, line, bytes, qual) ==
    [function |-> fn, file |-> file, line |-> line,
     stack_bytes |-> bytes, qualifier |-> qual]

Usages ==
    { StackUsage("a", "mod.c", 10, 10, "static"),
      StackUsage("b", "mod.c", 20, 20, "static"),
      StackUsage("c", "mod.c", 30, 10, "dynamic,bounded"),
      StackUsage("c", "aux.c", 5, 0, "static"),
      StackUsage("b", "aux.c", 7, -8, "static") }

(***************************************************************************)
(* Helpers on sequences and sets.                                          *)
(***************************************************************************)
Range(s) == {s[i] : i \in 1..Len(s)}

\* All duplicate-free sequences whose elements are exactly the set S:
\* the orders in which iterating a set S can yield its elements.
IterationOrders(S) ==
    {s \in [1..Cardinality(S) -> S] : Range(s) = S}

EdgeCount == LET D == DOMAIN calls
                 RECURSIVE Total(_)
                 Total(K) == IF K = {} THEN 0
                             ELSE LET k == CHOOSE x \in K : TRUE
                                  IN Len(calls[k]) + Total(K \ {k})
             IN Total(D)

(***************************************************************************)
(* CallGraph.__init__                                                      *)
(***************************************************************************)
NoResult == [entry |-> "", total |-> 0, chain |-> <<>>, children |-> <<>>]

\* memo: an earlier answer kept by the caller, and whether a query for
\* another entry point has been answered since.
NoMemo == [entry |-> "", total |-> 0, chain |-> <<>>, between |-> FALSE]

\* entry_points: the answer of find_entry_points, once it has been asked.
NoEntryPoints == [answered |-> FALSE, names |-> {}]

\* scan: the builder has not opened a file.
NoScan == [file |-> 0, def |-> 0]

\* main: the tool is not running.
NoMain == [pc |-> "off"]

\* before: nothing observed.
NoBefore == [entry |-> "", callee |-> "", total |-> 0, children |-> <<>>]

Init ==
    /\ functions = <<>>
    /\ calls = <<>>
    /\ pc = "idle"
    /\ stack = <<>>
    /\ result = NoResult
    /\ memo = NoMemo
    /\ entry_points = NoEntryPoints
    /\ edges = {}
    /\ log = <<>>
    /\ before = NoBefore
    /\ su_file = <<>>
    /\ lineno = 0
    /\ usages = <<>>
    /\ sources = <<>>
    /\ scan = NoScan
    /\ main = NoMain

(***************************************************************************)
(* CallGraph.add_function: self.functions[usage.function] = usage          *)
(***************************************************************************)
\* Variant: setdefault, the first record added under a name is kept.
add_function_first(usage) ==
    [f \in DOMAIN functions \cup {usage.function} |->
        IF f \in DOMAIN functions THEN functions[f] ELSE usage]

add_function(usage) ==
    [f \in DOMAIN functions \cup {usage.function} |->
        IF f = usage.function THEN usage ELSE functions[f]]

DoAddFunction(usage) ==
    /\ pc = "idle"
    /\ functions' = add_function(usage)
    /\ result' = NoResult
    /\ memo' = NoMemo
    /\ entry_points' = NoEntryPoints
    /\ UNCHANGED <<calls, pc, stack, edges>>

AddFunction(usage) ==
    DoAddFunction(usage) /\ UNCHANGED <<log, before, parser_vars, builder_vars, main>>

(***************************************************************************)
(* CallGraph.add_call: self.calls[caller].add(callee).  The defaultdict    *)
(* creates the key; adding a member already present changes nothing;       *)
(* a new member lands anywhere in the iteration order.                     *)
(***************************************************************************)
CalleeSet(caller) ==
    IF caller \in DOMAIN calls THEN Range(calls[caller]) ELSE {}

\* Variant: self.calls[caller] = {callee}, the callees already there are lost.
add_call_assign(caller, order) ==
    [f \in DOMAIN calls \cup {caller} |->
        IF f = caller THEN SubSeq(order, 1, 1) ELSE calls[f]]

add_call(caller, order) ==
    [f \in DOMAIN calls \cup {caller} |->
        IF f = caller THEN order ELSE calls[f]]

\* Variant: the callees kept in a list, each call appended.
list_append(caller, callee) ==
    {Append(IF caller \in DOMAIN calls THEN calls[caller] ELSE <<>>, callee)}

\* set.add(callee): the iteration orders the callee set can have afterwards.
set_add(caller, callee) ==
    IF callee \in CalleeSet(caller)
    THEN {calls[caller]}
    ELSE IterationOrders(CalleeSet(caller) \cup {callee})

DoAddCall(caller, callee) ==
    /\ pc = "idle"
    /\ \E order \in set_add(caller, callee) :
          /\ EdgeCount - Cardinality(CalleeSet(caller)) + Len(order) <= MaxEdges
          /\ calls' = add_call(caller, order)
    /\ edges' = edges \cup {<<caller, callee>>}
    /\ IF calls' = calls
       THEN UNCHANGED <<result, memo, entry_points>>
       ELSE /\ result' = NoResult
            /\ memo' = NoMemo
            /\ entry_points' = NoEntryPoints
    /\ UNCHANGED <<functions, pc, stack>>

AddCall(caller, callee) ==
    DoAddCall(caller, callee) /\ UNCHANGED <<log, before, parser_vars, builder_vars, main>>

(***************************************************************************)
(* CallGraph.worst_case_stack(entry_point, visited=None)                   *)
(***************************************************************************)
\* entry_point + " (unknown)"
Unknown(f) == f \o " (unknown)"

\* Variant: a default argument visited=set(), one set object shared by all
\* top-level calls, which still holds the entry point of the call before.
TopVisitedShared == {result.entry} \ {""}

\* if visited is None: visited = set()
TopVisited == {}

\* visited.copy(), the set handed to the recursive call
Copy(visited) == visited

\* self.calls.get(entry_point, []): the callees in iteration order
Callees(f) == IF f \in DOMAIN calls THEN calls[f] ELSE <<>>

\* Variant: self.calls[entry_point], which makes the defaultdict create the key.
calls_index(f) ==
    [g \in DOMAIN calls \cup {f} |-> IF g \in DOMAIN calls THEN calls[g] ELSE <<>>]

\* The mapping calls after self.calls.get(entry_point, []) has been evaluated.
calls_get(f) == calls

Return(total, path) == [kind |-> "return", total |-> total, path |-> path]

\* The locals of one invocation that has passed its two early returns.
\* iter is the part of the callee iteration still ahead; children records
\* what each finished recursive call returned (callee, child_stack,
\* child_path), in iteration order.
Frame(f, visited) ==
    [kind |-> "frame",
     entry_point |-> f,
     visited |-> visited,
     local_stack |-> functions[f].stack_bytes,
     iter |-> Callees(f),
     max_child_stack |-> 0,
     max_child_path |-> <<>>,
     children |-> <<>>]

\* Variant: the function met again on the path is counted once more.
VisitedReturnCounted(f) == Return(functions[f].stack_bytes, <<f>>)

\* What the early return for a function already on the path gives back.
VisitedReturn(f) == Return(0, <<>>)

\* Variant: the annotation is left out.
UnknownReturnBare(f) == Return(0, <<f>>)

\* What the early return for a function without a record gives back.
UnknownReturn(f) == Return(0, <<Unknown(f)>>)

\* Variant: visited.add(entry_point) is left out.
PrologueNoAdd(f, visited) ==
    IF f \in visited THEN VisitedReturn(f)
    ELSE IF f \notin DOMAIN functions THEN UnknownReturn(f)
    ELSE Frame(f, visited)

\* Variant: no check of the visited set.
PrologueNoGuard(f, visited) ==
    IF f \notin DOMAIN functions THEN UnknownReturn(f)
    ELSE Frame(f, visited \cup {f})

\* The start of an invocation, up to the loop: an early return or a frame.
Prologue(f, visited) ==
    IF f \in visited THEN VisitedReturn(f)
    ELSE IF f \notin DOMAIN functions THEN UnknownReturn(f)
    ELSE Frame(f, visited \cup {f})

\* Variant: no callee is ever taken.
BetterNever(child_stack, max_child_stack) == FALSE

\* Variant: the first callee with a positive total wins.
BetterFirst(child_stack, max_child_stack) ==
    child_stack > 0 /\ max_child_stack = 0

\* Variant: the comparison is left out, the last callee wins.
BetterAlways(child_stack, max_child_stack) == TRUE

\* if child_stack > max_child_stack: take the child's stack and path
Better(child_stack, max_child_stack) == child_stack > max_child_stack

\* The end of one loop iteration of frame fr, the call having returned ret.
Absorb(fr, ret) ==
    LET take == Better(ret.total, fr.max_child_stack)
    IN [fr EXCEPT
          !.iter = Tail(@),
          !.max_child_stack = IF take THEN ret.total ELSE @,
          !.max_child_path = IF take THEN ret.path ELSE @,
          !.children = Append(@, [callee |-> Head(fr.iter),
                                  total |-> ret.total,
                                  path |-> ret.path])]

\* Variant: path = max_child_path + [entry_point], the caller put last.
EpilogueAppend(fr) ==
    Return(fr.local_stack + fr.max_child_stack,
           fr.max_child_path \o <<fr.entry_point>>)

\* Variant: the larger of the two instead of their sum.
EpilogueMax(fr) ==
    Return(IF fr.local_stack > fr.max_child_stack
           THEN fr.local_stack ELSE fr.max_child_stack,
           <<fr.entry_point>> \o fr.max_child_path)

\* total = local_stack + max_child_stack; path = [entry_point] + max_child_path
Epilogue(fr) ==
    Return(fr.local_stack + fr.max_child_stack,
           <<fr.entry_point>> \o fr.max_child_path)

Answer(entry, ret, children) ==
    [entry |-> entry, total |-> ret.total, chain |-> ret.path,
     children |-> children]

\* The caller keeps the answer, and may keep it on as memo for comparison
\* with later answers about the same graph.
Deliver(ans) ==
    /\ result' = ans
    /\ entry_points' = NoEntryPoints
    /\ memo' \in
         { IF memo # NoMemo /\ memo.entry # ans.entry
           THEN [memo EXCEPT !.between = TRUE] ELSE memo,
           [entry |-> ans.entry, total |-> ans.total, chain |-> ans.chain,
            between |-> FALSE] }

\* graph.worst_case_stack(entry) is invoked.
DoBegin(entry) ==
    /\ pc = "idle"
    /\ LET p == Prologue(entry, TopVisited)
       IN IF p.kind = "return"
          THEN /\ Deliver(Answer(entry, p, <<>>))
               /\ UNCHANGED <<pc, stack, calls>>
          ELSE /\ stack' = <<p>>
               /\ calls' = calls_get(entry)
               /\ pc' = "running"
               /\ result' = NoResult
               /\ entry_points' = NoEntryPoints
               /\ memo' = memo
    /\ UNCHANGED <<functions, edges, log, before, parser_vars, builder_vars>>

\* A caller invokes graph.worst_case_stack(entry).
Begin(entry) == DoBegin(entry) /\ UNCHANGED main

\* One iteration of the loop over the callees: the recursive call either
\* returns at once or becomes the innermost invocation.
CallStep ==
    /\ pc = "running"
    /\ LET top == stack[Len(stack)]
       IN /\ top.iter # <<>>
          /\ LET p == Prologue(Head(top.iter), Copy(top.visited))
             IN IF p.kind = "return"
                THEN /\ stack' = [stack EXCEPT ![Len(stack)] = Absorb(top, p)]
                     /\ UNCHANGED <<pc, calls>>
                ELSE IF Len(stack) >= RecursionLimit
                THEN /\ stack' = <<>>
                     /\ pc' = "failed"
                     /\ UNCHANGED calls
                ELSE /\ stack' = Append(stack, p)
                     /\ calls' = calls_get(Head(top.iter))
                     /\ pc' = pc
    /\ UNCHANGED <<functions, result, memo, entry_points, edges, log, before, parser_vars, builder_vars, main>>

\* The innermost invocation has no callee left and returns.
ReturnStep ==
    /\ pc = "running"
    /\ LET n == Len(stack)
           top == stack[n]
       IN /\ top.iter = <<>>
          /\ IF n = 1
             THEN /\ stack' = <<>>
                  /\ pc' = "idle"
                  /\ Deliver(Answer(top.entry_point, Epilogue(top), top.children))
             ELSE /\ stack' = [SubSeq(stack, 1, n - 1) EXCEPT
                                 ![n - 1] = Absorb(stack[n - 1], Epilogue(top))]
                  /\ pc' = pc
                  /\ UNCHANGED <<result, memo, entry_points>>
    /\ UNCHANGED <<functions, calls, edges, log, before, parser_vars, builder_vars, main>>

SolverStep == CallStep \/ ReturnStep

(***************************************************************************)
(* CallGraph.find_entry_points.  The answer is a list without duplicates,  *)
(* in the order of functions.keys(); it is kept here as the set of its     *)
(* elements.                                                               *)
(***************************************************************************)
\* Variant: only the callers are collected, not their callees.
callers_only == DOMAIN calls

\* all_callees after the loop over self.calls.values()
all_callees == UNION {Range(calls[caller]) : caller \in DOMAIN calls}

find_entry_points == {func \in DOMAIN functions : func \notin all_callees}

DoFindEntryPoints ==
    /\ pc = "idle"
    /\ entry_points' = [answered |-> TRUE, names |-> find_entry_points]
    /\ result' = NoResult
    /\ UNCHANGED <<functions, calls, pc, stack, memo, edges, log, before, parser_vars, builder_vars>>

FindEntryPoints == DoFindEntryPoints /\ UNCHANGED main

Next ==
    \/ \E usage \in Usages : AddFunction(usage)
    \/ \E caller \in FuncNames, callee \in FuncNames : AddCall(caller, callee)
    \/ \E entry \in FuncNames : Begin(entry)
    \/ CallStep
    \/ ReturnStep
    \/ FindEntryPoints

Spec == Init /\ [][Next]_vars

\* A started query is never abandoned: the interpreter keeps running it.
\* The graph is grown and queried as in Spec; what the caller does with the
\* answers (memo, find_entry_points) plays no part in the walk and is left
\* out.
LiveNext ==
    \/ \E usage \in Usages : AddFunction(usage)
    \/ \E caller \in FuncNames, callee \in FuncNames : AddCall(caller, callee)
    \/ \E entry \in FuncNames : Begin(entry) /\ memo' = NoMemo
    \/ CallStep
    \/ ReturnStep /\ memo' = NoMemo

FairSpec == Init /\ [][LiveNext]_vars /\ WF_vars(SolverStep)

(***************************************************************************)
(* Building a graph, every invocation logged: main adds the parsed records *)
(* in list order, the builder adds the edges it finds.                     *)
(***************************************************************************)
LoggedAddFunction(usage) ==
    /\ Len(log) < MaxOps
    /\ DoAddFunction(usage)
    /\ log' = Append(log, [op |-> "add_function", usage |-> usage])
    /\ UNCHANGED <<before, parser_vars, builder_vars, main>>

LoggedAddCall(caller, callee) ==
    /\ Len(log) < MaxOps
    /\ DoAddCall(caller, callee)
    /\ log' = Append(log, [op |-> "add_call", caller |-> caller, callee |-> callee])
    /\ UNCHANGED <<before, parser_vars, builder_vars, main>>

BuildNext ==
    \/ \E usage \in Usages : LoggedAddFunction(usage)
    \/ \E caller \in FuncNames, callee \in FuncNames : LoggedAddCall(caller, callee)

BuildSpec == Init /\ [][BuildNext]_vars

(***************************************************************************)
(* Growing a graph between queries: when the entry point of the answer the *)
(* caller holds is given a callee it did not have, the answer is kept in   *)
(* before, to be compared with the next answer for that entry point.  As   *)
(* in main, the records are added before the edges; the caller keeps no    *)
(* memo.                                                                   *)
(***************************************************************************)
ObservedAddFunction(usage) ==
    /\ calls = <<>>
    /\ DoAddFunction(usage)
    /\ before' = NoBefore
    /\ UNCHANGED <<log, parser_vars, builder_vars, main>>

ObservedAddCall(caller, callee) ==
    /\ DoAddCall(caller, callee)
    /\ before' = IF /\ result # NoResult
                    /\ result.entry = caller
                    /\ callee \notin CalleeSet(caller)
                 THEN [entry |-> caller, callee |-> callee,
                       total |-> result.total, children |-> result.children]
                 ELSE NoBefore
    /\ UNCHANGED <<log, parser_vars, builder_vars, main>>

MonoNext ==
    \/ \E usage \in Usages : ObservedAddFunction(usage)
    \/ \E caller \in FuncNames, callee \in FuncNames : ObservedAddCall(caller, callee)
    \/ \E entry \in FuncNames : Begin(entry) /\ memo' = NoMemo
    \/ CallStep
    \/ ReturnStep /\ memo' = NoMemo

MonoSpec == Init /\ [][MonoNext]_vars

(***************************************************************************)
(* The same graph in another run of the interpreter: the callee sets are   *)
(* sets of str, whose iteration order changes with the hash seed of the    *)
(* run.  The caller keeps in memo an answer of the run before.             *)
(***************************************************************************)
Reorder ==
    /\ pc = "idle"
    /\ \E f \in DOMAIN calls :
          \E order \in IterationOrders(CalleeSet(f)) \ {calls[f]} :
              calls' = [calls EXCEPT ![f] = order]
    /\ result' = NoResult
    /\ entry_points' = NoEntryPoints
    /\ UNCHANGED <<functions, pc, stack, memo, edges, log, before, parser_vars, builder_vars, main>>

OrderNext ==
    \/ \E usage \in Usages : calls = <<>> /\ AddFunction(usage)
    \/ \E caller \in FuncNames, callee \in FuncNames : AddCall(caller, callee)
    \/ \E entry \in FuncNames : Begin(entry)
    \/ CallStep
    \/ ReturnStep
    \/ Reorder

OrderSpec == Init /\ [][OrderNext]_vars

(***************************************************************************)
(* Queries on a diamond: a calls b and c, both call d.  The records of c   *)
(* and d, the iteration order of a's callees and what d calls vary.        *)
(***************************************************************************)
DiamondNames == FuncNames \cup {"d"}

DiamondGraphs ==
    { [functions |-> [f \in {"a", "b", "c"} \cup has_d |->
                        CASE f = "a" -> StackUsage("a", "mod.c", 10, 10, "static")
                          [] f = "b" -> StackUsage("b", "mod.c", 20, 20, "static")
                          [] f = "c" -> c_usage
                          [] f = "d" -> StackUsage("d", "mod.c", 40, 30, "static")],
       calls |-> [f \in {"a", "b", "c"} \cup d_key |->
                        CASE f = "a" -> a_order
                          [] f = "b" -> <<"d">>
                          [] f = "c" -> <<"d">>
                          [] f = "d" -> d_calls]] :
        has_d \in {{}, {"d"}},
        c_usage \in {u \in Usages : u.function = "c"},
        a_order \in IterationOrders({"b", "c"}),
        d_key \in {{}, {"d"}},
        d_calls \in {<<"d">>, <<"a">>, <<"b">>} }

DiamondInit ==
    /\ \E g \in DiamondGraphs :
          /\ functions = g.functions
          /\ calls = g.calls
          /\ edges = UNION {{<<f, c>> : c \in Range(g.calls[f])} :
                                f \in DOMAIN g.calls}
    /\ pc = "idle"
    /\ stack = <<>>
    /\ result = NoResult
    /\ memo = NoMemo
    /\ entry_points = NoEntryPoints
    /\ log = <<>>
    /\ before = NoBefore
    /\ su_file = <<>>
    /\ lineno = 0
    /\ usages = <<>>
    /\ sources = <<>>
    /\ scan = NoScan
    /\ main = NoMain

DiamondNext ==
    \/ \E entry \in DiamondNames : Begin(entry) /\ memo' = NoMemo
    \/ CallStep
    \/ ReturnStep /\ memo' = NoMemo

DiamondSpec == DiamondInit /\ [][DiamondNext]_vars

(***************************************************************************)
(* parse_su_file.  Text is a sequence of one-character strings; a line of  *)
(* the file ends with its newline, as iterating over the file yields it.   *)
(***************************************************************************)
TAB == "\t"

NEWLINE == "\n"

\* The characters str.strip() removes that occur in the lines read here.
Whitespace == {" ", TAB, NEWLINE, "\r"}

DigitChars == <<"0", "1", "2", "3", "4", "5", "6", "7", "8", "9">>

Digits == Range(DigitChars)

DigitValue(c) == (CHOOSE i \in DOMAIN DigitChars : DigitChars[i] = c) - 1

\* The Python string of a text.
RECURSIVE Str(_)
Str(text) == IF text = <<>> THEN "" ELSE Head(text) \o Str(Tail(text))

RECURSIVE lstrip(_)
lstrip(text) ==
    IF text # <<>> /\ Head(text) \in Whitespace THEN lstrip(Tail(text)) ELSE text

RECURSIVE rstrip(_)
rstrip(text) ==
    IF text # <<>> /\ text[Len(text)] \in Whitespace
    THEN rstrip(SubSeq(text, 1, Len(text) - 1))
    ELSE text

\* Variant: the line is used as read, its newline included.
strip_none(text) == text

\* line.strip()
strip(text) == rstrip(lstrip(text))

\* line.split(sep)
RECURSIVE split(_, _)
split(text, sep) ==
    LET hits == {i \in 1..Len(text) : text[i] = sep}
    IN IF hits = {}
       THEN <<text>>
       ELSE LET i == CHOOSE h \in hits : \A g \in hits : h <= g
            IN <<SubSeq(text, 1, i - 1)>> \o split(SubSeq(text, i + 1, Len(text)), sep)

IsDigits(text) == text # <<>> /\ \A i \in 1..Len(text) : text[i] \in Digits

RECURSIVE DecimalValue(_)
DecimalValue(digits) ==
    IF digits = <<>> THEN 0
    ELSE DecimalValue(SubSeq(digits, 1, Len(digits) - 1)) * 10
            + DigitValue(digits[Len(digits)])

\* int(text): surrounding whitespace is ignored, a sign may lead, single
\* underscores may separate digits; anything else raises ValueError.
ValueError == [raised |-> TRUE, value |-> 0]

int(text) ==
    LET t == strip(text)
        signed == t # <<>> /\ Head(t) \in {"+", "-"}
        body == IF signed THEN Tail(t) ELSE t
        plain == SelectSeq(body, LAMBDA c : c # "_")
        ok == /\ body # <<>>
              /\ \A i \in 1..Len(body) : body[i] \in Digits \cup {"_"}
              /\ body[1] # "_" /\ body[Len(body)] # "_"
              /\ \A i \in 1..(Len(body) - 1) : ~(body[i] = "_" /\ body[i + 1] = "_")
    IN IF ~ok THEN ValueError
       ELSE [raised |-> FALSE,
             value |-> IF signed /\ Head(t) = "-"
                       THEN 0 - DecimalValue(plain) ELSE DecimalValue(plain)]

\* re.match(r'(.+?):(\d+):\d+:(.+)', location): group 1 is the shortest
\* non-empty prefix followed by ":digits:digits:" and at least one more
\* character; group 3 is all that follows.
NoMatch == [matched |-> FALSE, group1 |-> <<>>, group2 |-> <<>>, group3 |-> <<>>]

re_match(location) ==
    LET n == Len(location)
        Colons == {i \in 1..n : location[i] = ":"}
        After(i) == {j \in Colons : j > i}
        NextColon(i) == CHOOSE j \in After(i) : \A k \in After(i) : j <= k
        Fits(i) ==
            /\ i > 1
            /\ \A x \in 1..(i - 1) : location[x] # NEWLINE
            /\ After(i) # {}
            /\ LET j == NextColon(i)
               IN /\ IsDigits(SubSeq(location, i + 1, j - 1))
                  /\ After(j) # {}
                  /\ LET k == NextColon(j)
                     IN /\ IsDigits(SubSeq(location, j + 1, k - 1))
                        /\ k < n
                        /\ location[k + 1] # NEWLINE
        Starts == {i \in Colons : Fits(i)}
    IN IF Starts = {} THEN NoMatch
       ELSE LET i == CHOOSE a \in Starts : \A b \in Starts : a <= b
                j == NextColon(i)
                k == NextColon(j)
                rest == SubSeq(location, k + 1, n)
                stops == {x \in 1..Len(rest) : rest[x] = NEWLINE}
                last == IF stops = {} THEN Len(rest)
                        ELSE (CHOOSE a \in stops : \A b \in stops : a <= b) - 1
            IN [matched |-> TRUE,
                group1 |-> SubSeq(location, 1, i - 1),
                group2 |-> SubSeq(location, i + 1, j - 1),
                group3 |-> SubSeq(rest, 1, last)]

\* One iteration of the loop over the lines: the record to append, or
\* nothing when the line is skipped by one of the continue statements.
Skipped == [skip |-> TRUE, usage |-> <<>>]

parse_line(raw) ==
    LET line == strip(raw)
    IN IF line = <<>> THEN Skipped
       ELSE LET parts == split(line, TAB)
            IN IF Len(parts) < 3 THEN Skipped
               ELSE LET match == re_match(parts[1])
                        bytes == int(parts[2])
                    IN IF ~match.matched THEN Skipped
                       ELSE IF bytes.raised THEN Skipped
                       ELSE [skip |-> FALSE,
                             usage |-> StackUsage(Str(match.group3),
                                                  Str(match.group1),
                                                  int(match.group2).value,
                                                  bytes.value,
                                                  Str(parts[3]))]

\* Variant: break, the loop ends at the first line it cannot use.
break_loop == Len(su_file)

\* continue: the loop goes on with the next line.
continue_loop == lineno + 1

ParseLine ==
    /\ lineno < Len(su_file)
    /\ LET parsed == parse_line(su_file[lineno + 1])
       IN IF parsed.skip
          THEN /\ lineno' = continue_loop
               /\ usages' = usages
          ELSE /\ lineno' = lineno + 1
               /\ usages' = Append(usages, parsed.usage)
    /\ UNCHANGED <<graph_vars, su_file, builder_vars, main>>

\* return usages: the list is all the function hands back.
parse_su_file == [usages |-> usages]

(***************************************************************************)
(* The lines the files are made of.  A line is written from its fields,    *)
(* numbers in decimal, so that what the parser makes of the text can be    *)
(* compared with what was written.                                         *)
(***************************************************************************)
RECURSIVE Decimal(_)
Decimal(n) ==
    IF n < 0 THEN <<"-">> \o Decimal(0 - n)
    ELSE IF n < Len(DigitChars) THEN <<DigitChars[n + 1]>>
    ELSE Decimal(n \div Len(DigitChars)) \o <<DigitChars[(n % Len(DigitChars)) + 1]>>

Location(file, line, col, function) ==
    file \o <<":">> \o Decimal(line) \o <<":">> \o Decimal(col) \o <<":">> \o function

WrittenLine(file, line, col, function, bytes, qualifier, more) ==
    [text |-> Location(file, line, col, function) \o <<TAB>> \o Decimal(bytes)
                 \o <<TAB>> \o qualifier \o more \o <<NEWLINE>>,
     class |-> "well-formed",
     usage |-> StackUsage(Str(function), Str(file), line, bytes, Str(qualifier))]

MalformedLine(class, text) ==
    [text |-> text \o <<NEWLINE>>, class |-> class, usage |-> <<>>]

mod_c == <<"m", "o", "d", ".", "c">>
aux_c == <<"a", "u", "x", ".", "c">>
static == <<"s", "t", "a", "t", "i", "c">>
dynamic_bounded == <<"d", "y", "n", "a", "m", "i", "c", ",", "b", "o", "u", "n", "d", "e", "d">>

SampleLines ==
    { WrittenLine(mod_c, 10, 1, <<"a">>, 10, static, <<>>),
      WrittenLine(mod_c, 30, 5, <<"c">>, 10, dynamic_bounded, <<>>),
      \* a fourth field after the qualifier
      WrittenLine(mod_c, 20, 12, <<"b">>, 20, static, <<TAB, "x">>),
      \* a byte field that reads -8
      WrittenLine(aux_c, 7, 1, <<"b">>, 0 - 8, static, <<>>),
      \* two fields only
      MalformedLine("few fields",
                    Location(mod_c, 10, 1, <<"a">>) \o <<TAB>> \o Decimal(10)),
      \* the byte field is not a number
      MalformedLine("non-numeric bytes",
                    Location(mod_c, 10, 1, <<"a">>) \o <<TAB, "x", TAB>> \o static),
      \* the location has no column
      MalformedLine("bad location",
                    mod_c \o <<":">> \o Decimal(10) \o <<":", "a", TAB>>
                       \o Decimal(10) \o <<TAB>> \o static),
      MalformedLine("blank", <<>>) }

SampleTexts == {l.text : l \in SampleLines}

ParseInit ==
    /\ functions = <<>>
    /\ calls = <<>>
    /\ pc = "idle"
    /\ stack = <<>>
    /\ result = NoResult
    /\ memo = NoMemo
    /\ entry_points = NoEntryPoints
    /\ edges = {}
    /\ log = <<>>
    /\ before = NoBefore
    /\ su_file \in UNION {[1..n -> SampleTexts] : n \in 0..MaxLines}
    /\ lineno = 0
    /\ usages = <<>>
    /\ sources = <<>>
    /\ scan = NoScan
    /\ main = NoMain

ParseNext == ParseLine

ParseSpec == ParseInit /\ [][ParseNext]_vars

(***************************************************************************)
(* build_call_graph_from_source.  The two regular expressions are read     *)
(* character by character.                                                 *)
(***************************************************************************)
\* \w
WordChars ==
    Digits \cup {"_"} \cup
    {"a", "b", "c", "d", "e", "f", "g", "h", "i", "j", "k", "l", "m",
     "n", "o", "p", "q", "r", "s", "t", "u", "v", "w", "x", "y", "z"} \cup
    {"A", "B", "C", "D", "E", "F", "G", "H", "I", "J", "K", "L", "M",
     "N", "O", "P", "Q", "R", "S", "T", "U", "V", "W", "X", "Y", "Z"}

\* The last position of the longest run of characters of class that starts
\* at position p of content; p - 1 when there is none.
RECURSIVE RunEnd(_, _, _)
RunEnd(content, p, class) ==
    IF p <= Len(content) /\ content[p] \in class
    THEN RunEnd(content, p + 1, class)
    ELSE p - 1

\* [^)]*: the last position before the next ")" or the end.
RECURSIVE RunEndNot(_, _, _)
RunEndNot(content, p, char) ==
    IF p <= Len(content) /\ content[p] # char
    THEN RunEndNot(content, p + 1, char)
    ELSE p - 1

CharAt(content, p) == IF p \in 1..Len(content) THEN content[p] ELSE ""

\* r'^\s*\w+[\s\*]+(\w+)\s*\([^)]*\)\s*\{' tried at position p.
NoDef == [matched |-> FALSE, name |-> <<>>, end |-> 0]

DefAt(content, p) ==
    LET type_start == RunEnd(content, p, Whitespace) + 1
        type_end == RunEnd(content, type_start, WordChars)
        gap_end == RunEnd(content, type_end + 1, Whitespace \cup {"*"})
        name_end == RunEnd(content, gap_end + 1, WordChars)
        open == RunEnd(content, name_end + 1, Whitespace) + 1
        close == RunEndNot(content, open + 1, ")") + 1
        brace == RunEnd(content, close + 1, Whitespace) + 1
    IN IF /\ p = 1 \/ CharAt(content, p - 1) = NEWLINE
          /\ type_end >= type_start
          /\ gap_end > type_end
          /\ name_end > gap_end
          /\ CharAt(content, open) = "("
          /\ CharAt(content, close) = ")"
          /\ CharAt(content, brace) = "{"
       THEN [matched |-> TRUE,
             name |-> SubSeq(content, gap_end + 1, name_end),
             end |-> brace]
       ELSE NoDef

\* re.finditer(..., content, re.MULTILINE): the matches from left to right,
\* each search starting where the match before ended.
RECURSIVE FuncDefsFrom(_, _)
FuncDefsFrom(content, from) ==
    LET starts == {p \in from..Len(content) : DefAt(content, p).matched}
    IN IF starts = {} THEN <<>>
       ELSE LET p == CHOOSE a \in starts : \A b \in starts : a <= b
                func_def == DefAt(content, p)
            IN <<func_def>> \o FuncDefsFrom(content, func_def.end + 1)

func_defs(content) == FuncDefsFrom(content, 1)

\* r'\b(\w+)\s*\(' on content[func_start:]: where an identifier starts at a
\* word boundary of the slice and "(" follows it after optional blanks.
CallStarts(content, func_start) ==
    {q \in (func_start + 1)..Len(content) :
        /\ content[q] \in WordChars
        /\ q = func_start + 1 \/ content[q - 1] \notin WordChars
        /\ LET word_end == RunEnd(content, q, WordChars)
           IN CharAt(content, RunEnd(content, word_end + 1, Whitespace) + 1) = "("}

\* call.group(1) of every match
Candidates(content, func_start) ==
    {Str(SubSeq(content, q, RunEnd(content, q, WordChars))) :
        q \in CallStarts(content, func_start)}

\* Variant: printf is not in the list.
ExcludedKeywordsOnly == {"if", "while", "for", "switch", "return", "sizeof"}

\* ['if', 'while', 'for', 'switch', 'return', 'sizeof', 'printf']
Excluded == {"if", "while", "for", "switch", "return", "sizeof", "printf"}

\* Variant: the scan stops at the next function definition of the file.
ScannedToNextDef(content, defs, k) ==
    IF k < Len(defs)
    THEN SubSeq(content, 1, defs[k + 1].end)
    ELSE content

\* content[func_start:] reaches the end of the file; the text the scan for
\* the k-th definition can see is the whole content.
Scanned(content, defs, k) == content

\* The callees the inner loop hands to add_call for the k-th definition.
Found(content, defs, k) ==
    Candidates(Scanned(content, defs, k), defs[k].end) \ Excluded

\* with open(c_file): the next file of c_files is read.
OpenFile ==
    /\ scan.file < Len(sources)
    /\ scan.file > 0 => scan.def = Len(func_defs(sources[scan.file]))
    /\ scan' = [file |-> scan.file + 1, def |-> 0]
    /\ UNCHANGED <<graph_vars, parser_vars, sources, main>>

\* One iteration of the loop over func_defs, its loop over the calls
\* included: every candidate not excluded goes to graph.add_call.
ScanFunction ==
    /\ scan.file > 0
    /\ LET content == sources[scan.file]
           defs == func_defs(content)
       IN /\ scan.def < Len(defs)
          /\ LET func_name == Str(defs[scan.def + 1].name)
                 found == Found(content, defs, scan.def + 1)
             IN /\ IF found \subseteq CalleeSet(func_name)
                   THEN calls' = calls
                   ELSE \E order \in IterationOrders(CalleeSet(func_name) \cup found) :
                           calls' = add_call(func_name, order)
                /\ edges' = edges \cup {<<func_name, callee>> : callee \in found}
    /\ scan' = [scan EXCEPT !.def = @ + 1]
    /\ UNCHANGED <<functions, pc, stack, result, memo, entry_points, log, before,
                   parser_vars, sources, main>>

\* return graph
BuilderFinished ==
    /\ scan.file = Len(sources)
    /\ scan.file > 0 => scan.def = Len(func_defs(sources[scan.file]))

(***************************************************************************)
(* The source files the builder is run on: one or two files made of the    *)
(* function definitions below.  body names every identifier that stands    *)
(* before an opening parenthesis inside the braces of the definition.      *)
(***************************************************************************)
SampleFuncs ==
    {
      \* f calls g
      [name |-> "f",
       body |-> {"g"},
       text |-> <<"i", "n", "t", " ", "f", "(", "v", "o", "i", "d", ")", " ", "{",
                 "\n", " ", " ", "g", "(", ")", ";", "\n", "}", "\n">>],
      \* g calls h under an if, a blank before the parenthesis
      [name |-> "g",
       body |-> {"h", "if"},
       text |-> <<"v", "o", "i", "d", " ", "g", "(", "i", "n", "t", " ", "x", ")", " ",
                 "{", "\n", " ", " ", "i", "f", " ", "(", "x", ")",
                 " ", "h", " ", "(", "x", ")", ";", "\n", "}", "\n">>],
      \* pointer result, brace on its own line; sizeof and a call of k
      [name |-> "h",
       body |-> {"k", "sizeof"},
       text |-> <<"i", "n", "t", " ", "*", "h", "(", "v", "o", "i", "d", ")", "\n",
                 "{", "\n", " ", " ", "r", "e", "t", "u", "r", "n",
                 " ", "s", "i", "z", "e", "o", "f", "(", "i", "n", "t",
                 ")", " ", "+", " ", "k", "(", ")", ";", "\n", "}",
                 "\n">>],
      \* keywords and printf only
      [name |-> "m",
       body |-> {"for", "printf", "return", "switch", "while"},
       text |-> <<"v", "o", "i", "d", " ", "m", "(", "v", "o", "i", "d", ")", " ", "{",
                 "\n", " ", " ", "w", "h", "i", "l", "e", " ", "(",
                 "1", ")", " ", "p", "r", "i", "n", "t", "f", "(", "x",
                 ")", ";", "\n", " ", " ", "f", "o", "r", " ", "(",
                 ";", ";", ")", " ", "s", "w", "i", "t", "c", "h", " ",
                 "(", "x", ")", " ", "{", " ", "}", "\n", " ", " ",
                 "r", "e", "t", "u", "r", "n", " ", "(", "0", ")", ";",
                 "\n", "}", "\n">>] }

\* The definitions a file was written from, in order.
FileLayouts ==
    UNION {[1..n -> SampleFuncs] : n \in 1..MaxFuncs}

RECURSIVE Concat(_)
Concat(texts) == IF texts = <<>> THEN <<>> ELSE Head(texts) \o Concat(Tail(texts))

FileText(layout) == Concat([i \in 1..Len(layout) |-> layout[i].text])

\* One file, or the same definitions split over two files.
SourceDirs ==
    {<<FileText(layout)>> : layout \in FileLayouts} \cup
    UNION {{<<FileText(SubSeq(layout, 1, k)),
              FileText(SubSeq(layout, k + 1, Len(layout)))>> :
               k \in 1..(Len(layout) - 1)} : layout \in FileLayouts}

SourceInit ==
    /\ functions = <<>>
    /\ calls = <<>>
    /\ pc = "idle"
    /\ stack = <<>>
    /\ result = NoResult
    /\ memo = NoMemo
    /\ entry_points = NoEntryPoints
    /\ edges = {}
    /\ log = <<>>
    /\ before = NoBefore
    /\ su_file = <<>>
    /\ lineno = 0
    /\ usages = <<>>
    /\ sources \in SourceDirs
    /\ scan = NoScan
    /\ main = NoMain

SourceNext ==
    \/ OpenFile
    \/ ScanFunction

SourceSpec == SourceInit /\ [][SourceNext]_vars

(***************************************************************************)
(* main.  main is a record: pc is the place the run has reached, args and  *)
(* found are the command line and what the file system holds (the .su      *)
(* files the request leads to, each readable or not), the other fields are *)
(* main's locals, what it wrote to stderr and what it returned.            *)
(***************************************************************************)
Message(text, about) == [text |-> text, about |-> about]

\* critical_functions of generate_stack_report
critical_functions ==
    <<"mb_client_poll", "mb_client_send_request", "mb_timeout_handler",
      "mb_client_init">>

mb_client_poll == <<"m", "b", "_", "c", "l", "i", "e", "n", "t", "_", "p", "o", "l", "l">>

\* The .su files a run can meet, with the records their lines were
\* written from.
SuFileA ==
    LET first == WrittenLine(mod_c, 10, 1, <<"a">>, 10, static, <<>>)
        second == WrittenLine(mod_c, 30, 5, <<"c">>, 10, dynamic_bounded, <<>>)
    IN [readable |-> TRUE, lines |-> <<first.text, second.text>>,
        records |-> <<first.usage, second.usage>>]

SuFilePoll ==
    LET first == WrittenLine(mod_c, 50, 1, mb_client_poll, 40, static, <<>>)
        second == MalformedLine("few fields",
                     Location(mod_c, 10, 1, <<"a">>) \o <<TAB>> \o Decimal(10))
    IN [readable |-> TRUE, lines |-> <<first.text, second.text>>,
        records |-> <<first.usage>>]

SuFileNoRecords ==
    LET first == MalformedLine("non-numeric bytes",
                    Location(mod_c, 10, 1, <<"a">>) \o <<TAB, "x", TAB>> \o static)
        second == MalformedLine("blank", <<>>)
    IN [readable |-> TRUE, lines |-> <<first.text, second.text>>,
        records |-> <<>>]

\* open() raises: the file is gone, or may not be read.
SuFileUnreadable == [readable |-> FALSE, lines |-> <<>>, records |-> <<>>]

SuFiles == {SuFileA, SuFilePoll, SuFileNoRecords, SuFileUnreadable}

\* The source directory of the run, when it exists: a calls c.
MainSources ==
    <<<<"i", "n", "t", " ", "a", "(", "v", "o", "i", "d", ")", " ", "{", "\n",
        " ", " ", "c", "(", ")", ";", "\n", "}", "\n">>>>

Requests ==
    { [mode |-> mode, exists |-> exists, found |-> found,
       critical_path |-> critical_path, source_dir |-> source_dir] :
        mode \in {"su", "target", "all", "none"},
        exists \in BOOLEAN,
        found \in UNION {[1..n -> SuFiles] : n \in 0..MaxFiles},
        critical_path \in {"", "a"},
        source_dir \in BOOLEAN }

\* What can be asked for: --su names one file; a request for something
\* that does not exist finds nothing, and so does no request at all.
ValidRequest(args) ==
    /\ args.mode = "su" /\ args.exists => Len(args.found) = 1
    /\ (args.mode = "none" \/ ~args.exists) => args.found = <<>>
    /\ args.mode = "none" => ~args.exists

MainStart(args) ==
    [pc |-> "collect", args |-> args, su_files |-> <<>>, index |-> 0,
     all_usages |-> <<>>, added |-> 0, installed |-> FALSE, report |-> 0,
     has_graph |-> FALSE, entry_points |-> <<>>,
     stderr |-> <<>>, returned |-> "none"]

MainInit ==
    /\ functions = <<>>
    /\ calls = <<>>
    /\ pc = "idle"
    /\ stack = <<>>
    /\ result = NoResult
    /\ memo = NoMemo
    /\ entry_points = NoEntryPoints
    /\ edges = {}
    /\ log = <<>>
    /\ before = NoBefore
    /\ su_file = <<>>
    /\ lineno = 0
    /\ usages = <<>>
    /\ scan = NoScan
    /\ \E args \in Requests :
          /\ ValidRequest(args)
          /\ main = MainStart(args)
          /\ sources = IF args.source_dir THEN MainSources ELSE <<>>

\* return 1 after a message on stderr
Fail(m, text, about) ==
    [m EXCEPT !.pc = "done", !.returned = "1",
              !.stderr = Append(@, Message(text, about))]

\* Collect .su files: the three kinds of request, or print_help.
CollectFiles ==
    /\ main.pc = "collect"
    /\ main' =
         IF main.args.mode = "none"
         THEN [main EXCEPT !.pc = "done", !.returned = "1"]
         ELSE IF ~main.args.exists
         THEN Fail(main,
                   CASE main.args.mode = "su" -> ".su file not found"
                     [] main.args.mode = "target" -> "Target directory not found"
                     [] main.args.mode = "all" -> "Stack usage directory not found",
                   "request")
         ELSE IF main.args.found = <<>>
         THEN Fail(main, "No .su files found", "")
         ELSE [main EXCEPT !.pc = "parse", !.su_files = main.args.found]
    /\ UNCHANGED <<graph_vars, parser_vars, builder_vars>>

\* Variant: no try around parse_su_file, the exception ends the run.
FailedToParseFatal(m) ==
    [m EXCEPT !.pc = "done", !.returned = "exception"]

\* except Exception: the failure is reported and the loop goes on.
FailedToParse(m) ==
    [m EXCEPT !.index = @ + 1,
              !.stderr = Append(@, Message("Failed to parse", m.index + 1))]

\* for su_file in su_files: parse_su_file opens the file, or fails to.
OpenSu ==
    /\ main.pc = "parse"
    /\ main.index < Len(main.su_files)
    /\ LET file == main.su_files[main.index + 1]
       IN IF file.readable
          THEN /\ su_file' = file.lines
               /\ lineno' = 0
               /\ usages' = <<>>
               /\ main' = [main EXCEPT !.pc = "parsing"]
          ELSE /\ main' = FailedToParse(main)
               /\ UNCHANGED parser_vars
    /\ UNCHANGED <<graph_vars, builder_vars>>

\* parse_su_file returns: all_usages.extend(usages)
CloseSu ==
    /\ main.pc = "parsing"
    /\ lineno = Len(su_file)
    /\ main' = [main EXCEPT !.pc = "parse", !.index = @ + 1,
                            !.all_usages = @ \o parse_su_file.usages]
    /\ UNCHANGED <<graph_vars, parser_vars, builder_vars>>

\* Variant: the check is left out.
no_usages_unchecked(all_usages) == FALSE

\* if not all_usages
no_usages(all_usages) == all_usages = <<>>

\* Variant: the builder is never run.
AfterFunctionsNoBuilder(args) == "analyze"

\* if args.source_dir.exists(): the builder comes next
AfterFunctions(args) == IF args.source_dir THEN "build_calls" ELSE "analyze"

\* After the loop over the files: no record at all ends the run; else the
\* graph is made if a critical path was asked for or the source directory
\* exists.
CheckUsages ==
    /\ main.pc = "parse"
    /\ main.index = Len(main.su_files)
    /\ main' =
         IF no_usages(main.all_usages)
         THEN Fail(main, "No stack usage data collected", "")
         ELSE IF main.args.critical_path # "" \/ main.args.source_dir
         THEN [main EXCEPT !.pc = "add_functions", !.has_graph = TRUE]
         ELSE [main EXCEPT !.pc = "report"]
    /\ UNCHANGED <<graph_vars, parser_vars, builder_vars>>

\* for usage in all_usages: graph.add_function(usage)
MainAddFunction ==
    /\ main.pc = "add_functions"
    /\ main.added < Len(main.all_usages)
    /\ DoAddFunction(main.all_usages[main.added + 1])
    /\ main' = [main EXCEPT !.added = @ + 1]
    /\ UNCHANGED <<log, before, parser_vars, builder_vars>>

FunctionsAdded ==
    /\ main.pc = "add_functions"
    /\ main.added = Len(main.all_usages)
    /\ main' = [main EXCEPT !.pc = AfterFunctions(main.args)]
    /\ UNCHANGED <<graph_vars, parser_vars, builder_vars>>

\* graph.calls = source_graph.calls, the builder having returned
InstallCalls ==
    /\ main.pc = "build_calls"
    /\ BuilderFinished
    /\ main' = [main EXCEPT !.pc = "analyze", !.installed = TRUE]
    /\ UNCHANGED <<graph_vars, parser_vars, builder_vars>>

\* if args.critical_path and graph: graph.worst_case_stack(...)
\* elif graph: entry_points = graph.find_entry_points()
Analyze ==
    /\ main.pc = "analyze"
    /\ IF main.args.critical_path # ""
       THEN /\ DoBegin(main.args.critical_path)
            /\ memo' = NoMemo
            /\ main' = [main EXCEPT !.pc = "analyzing"]
       ELSE /\ DoFindEntryPoints
            /\ main' = [main EXCEPT !.pc = "report",
                                    !.entry_points = find_entry_points]

\* worst_case_stack has returned: entry_points = [args.critical_path]
Analyzed ==
    /\ main.pc = "analyzing"
    /\ pc = "idle"
    /\ main' = [main EXCEPT !.pc = "report",
                            !.entry_points = {main.args.critical_path}]
    /\ UNCHANGED <<graph_vars, parser_vars, builder_vars>>

\* generate_stack_report: for entry in critical_functions, a query for
\* each one that has a record, when there is a graph and entry_points is
\* not empty.
ReportEntry ==
    /\ main.pc = "report"
    /\ pc = "idle"
    /\ main.has_graph /\ main.entry_points # {}
    /\ main.report < Len(critical_functions)
    /\ main' = [main EXCEPT !.report = @ + 1]
    /\ IF critical_functions[main.report + 1] \in DOMAIN functions
       THEN DoBegin(critical_functions[main.report + 1]) /\ memo' = NoMemo
       ELSE UNCHANGED <<graph_vars, parser_vars, builder_vars>>

\* The report is written out; return 0.
Finish ==
    /\ main.pc = "report"
    /\ pc = "idle"
    /\ (main.has_graph /\ main.entry_points # {}) =>
          main.report = Len(critical_functions)
    /\ main' = [main EXCEPT !.pc = "done", !.returned = "0"]
    /\ UNCHANGED <<graph_vars, parser_vars, builder_vars>>

MainNext ==
    \/ CollectFiles
    \/ OpenSu
    \/ main.pc = "parsing" /\ ParseLine
    \/ CloseSu
    \/ CheckUsages
    \/ MainAddFunction
    \/ FunctionsAdded
    \/ main.pc = "build_calls" /\ OpenFile
    \/ main.pc = "build_calls" /\ ScanFunction
    \/ InstallCalls
    \/ Analyze
    \/ Analyzed
    \/ CallStep
    \/ ReturnStep /\ memo' = NoMemo
    \/ ReportEntry
    \/ Finish

MainSpec == MainInit /\ [][MainNext]_vars

(***************************************************************************)
(* Vocabulary of the properties.                                           *)
(***************************************************************************)
\* A query has been answered and the graph has not changed since.
Answered == pc = "idle" /\ result # NoResult

HasRecord(f) == f \in DOMAIN functions

\* stack_bytes of a function, 0 for a function with no record.
OwnBytes(f) == IF HasRecord(f) THEN functions[f].stack_bytes ELSE 0

MaxOf(S) == CHOOSE x \in S : \A y \in S : y <= x

Max0(S) == IF S = {} THEN 0
           ELSE LET m == CHOOSE x \in S : \A y \in S : y <= x
                IN IF m > 0 THEN m ELSE 0

RECURSIVE SumSeq(_)
SumSeq(s) == IF s = <<>> THEN 0 ELSE Head(s) + SumSeq(Tail(s))

NoDuplicates(s) == \A i, j \in 1..Len(s) : s[i] = s[j] => i = j

IsAnnotated(el) == \E f \in FuncNames : el = Unknown(f)

\* The function a chain element names, the annotation removed.
BaseName(el) == CHOOSE f \in FuncNames : el = f \/ el = Unknown(f)

\* Call chains from entry: they follow edges of calls and name no function twice.
CallChains(entry) ==
    {s \in UNION {[1..n -> FuncNames] : n \in 1..Cardinality(FuncNames)} :
        /\ s[1] = entry
        /\ NoDuplicates(s)
        /\ \A i \in 1..(Len(s) - 1) : s[i + 1] \in CalleeSet(s[i])}

ChainSum(s) == SumSeq([i \in 1..Len(s) |-> OwnBytes(s[i])])

\* The functions reachable from entry along calls, entry included.
Reachable(entry) == {s[Len(s)] : s \in CallChains(entry)}

(***************************************************************************)
(* C1: for every graph and entry point, the answered total_bytes is the    *)
(* largest sum of stack_bytes (0 without a record) over all call chains    *)
(* that start at the entry point, follow calls and name no function twice. *)
(***************************************************************************)
C1_TotalIsLargestChainSum ==
    Answered =>
        result.total = MaxOf({ChainSum(s) : s \in CallChains(result.entry)})

\* The same statement on the graphs in which no function without a record
\* has callees; there the walk is never cut short.
C1_HoldsWhenUnknownsAreLeaves ==
    (Answered /\ \A f \in DOMAIN calls : HasRecord(f)) =>
        result.total = MaxOf({ChainSum(s) : s \in CallChains(result.entry)})

(***************************************************************************)
(* C2: the answered total_bytes equals the sum, over the elements of the   *)
(* answered chain, of the function's stack_bytes, an element annotated     *)
(* "(unknown)" counting 0.                                                 *)
(***************************************************************************)
ElementBytes(el) == IF IsAnnotated(el) THEN 0 ELSE functions[el].stack_bytes

C2_Additivity ==
    Answered =>
        /\ \A i \in 1..Len(result.chain) :
              IsAnnotated(result.chain[i]) \/ HasRecord(result.chain[i])
        /\ result.total =
              SumSeq([i \in 1..Len(result.chain) |-> ElementBytes(result.chain[i])])

\* A chain of three functions with a positive total has been answered.
C2_Witness ==
    Answered /\ Len(result.chain) = 3 /\ result.total = 40

(***************************************************************************)
(* C3: worst_case_stack terminates for every finite call graph and entry   *)
(* point, self-loops, mutual cycles and longer cycles included: a started  *)
(* walk always ends with an answer, never by exhausting the recursion.     *)
(***************************************************************************)
C3_Terminates == (pc = "running") ~> Answered

\* The recursion is never abandoned at the recursion limit.
C3_NeverFails == pc # "failed"

OnCycle(f) == \E g \in CalleeSet(f) : f \in Reachable(g)

\* An answer for an entry point with a record that calls itself and also
\* lies on a cycle through another function.
C3_Witness ==
    /\ Answered
    /\ HasRecord(result.entry)
    /\ result.entry \in CalleeSet(result.entry)
    /\ \E g \in CalleeSet(result.entry) \ {result.entry} :
          HasRecord(g) /\ result.entry \in Reachable(g)

(***************************************************************************)
(* C4: the answered chain never names the same function twice and is no    *)
(* longer than the number of functions reachable from the entry point;     *)
(* with records a=10, b=20 and edges a->b, b->a the answer for a is        *)
(* (30, [a, b]).                                                           *)
(***************************************************************************)
ChainNames == [i \in 1..Len(result.chain) |-> BaseName(result.chain[i])]

MutualRecursionScenario ==
    /\ HasRecord("a") /\ functions["a"].stack_bytes = 10
    /\ HasRecord("b") /\ functions["b"].stack_bytes = 20
    /\ DOMAIN calls = {"a", "b"}
    /\ calls["a"] = <<"b">>
    /\ calls["b"] = <<"a">>

C4_ChainNamesNoFunctionTwice ==
    Answered =>
        /\ NoDuplicates(ChainNames)
        /\ Len(result.chain) <= Cardinality(Reachable(result.entry))
        /\ (MutualRecursionScenario /\ result.entry = "a") =>
              (result.total = 30 /\ result.chain = <<"a", "b">>)

C4_Witness ==
    Answered /\ MutualRecursionScenario /\ result.entry = "a"

(***************************************************************************)
(* C5: a visited function without a record but with callees does not end   *)
(* the walk: it contributes 0, its chain element is "<name> (unknown)",    *)
(* and its callees are explored, the best callee's total and chain being   *)
(* added to the result.                                                    *)
(***************************************************************************)
\* The total of a walk that goes on through functions without a record.
RECURSIVE WalkThroughTotal(_, _)
WalkThroughTotal(f, visited) ==
    IF f \in visited THEN 0
    ELSE OwnBytes(f) +
         Max0({WalkThroughTotal(c, visited \cup {f}) : c \in CalleeSet(f)})

C5_UnknownFunctionCalleesExplored ==
    (Answered /\ ~HasRecord(result.entry) /\ result.entry \in DOMAIN calls) =>
        /\ result.chain[1] = Unknown(result.entry)
        /\ result.total = WalkThroughTotal(result.entry, {})
        /\ (result.total > 0 => Len(result.chain) > 1)

(***************************************************************************)
(* C6: a callee without a record on the selected chain appears in it as    *)
(* "<name> (unknown)"; when a known function's only callee has no record   *)
(* the answered chain is [function, "<callee> (unknown)"].                 *)
(***************************************************************************)
C6_UnknownCalleeSurfaced ==
    (/\ Answered
     /\ HasRecord(result.entry)
     /\ Len(Callees(result.entry)) = 1
     /\ ~HasRecord(Callees(result.entry)[1])) =>
        result.chain = <<result.entry, Unknown(Callees(result.entry)[1])>>

(***************************************************************************)
(* C7: the worst-case path of a function absent from both functions and    *)
(* calls is total_bytes = 0 with the chain ["<name> (unknown)"], and no     *)
(* error is raised.                                                        *)
(***************************************************************************)
AbsentFromGraph(f) == f \notin DOMAIN functions /\ f \notin DOMAIN calls

C7_AbsentFunction ==
    /\ pc # "failed"
    /\ (Answered /\ AbsentFromGraph(result.entry)) =>
          (result.total = 0 /\ result.chain = <<Unknown(result.entry)>>)

\* An absent function has been queried on a graph that holds others.
C7_Witness ==
    /\ Answered
    /\ AbsentFromGraph(result.entry)
    /\ \A f \in DOMAIN calls : result.entry \notin CalleeSet(f)
    /\ DOMAIN functions # {}
    /\ DOMAIN calls # {}

(***************************************************************************)
(* C8: for a function with a record the answer is total_bytes = own        *)
(* stack_bytes + max(0, largest recursive total_bytes of its callees) and  *)
(* chain = [entry] followed by the chain of the selected callee, each      *)
(* callee evaluated with the functions on the current path marked          *)
(* visited; without callees the answer is (own_bytes, [entry]).            *)
(***************************************************************************)
\* The recursion of the statement, read on its own: totals ...
RECURSIVE RecTotal(_, _)
RecTotal(f, visited) ==
    IF f \in visited \/ ~HasRecord(f) THEN 0
    ELSE functions[f].stack_bytes +
         Max0({RecTotal(c, visited \cup {f}) : c \in CalleeSet(f)})

\* ... and the chains it allows: [f] followed by the chain of a callee
\* whose total is the largest, when that total exceeds 0.
RECURSIVE RecChains(_, _)
RecChains(f, visited) ==
    IF f \in visited THEN {<<>>}
    ELSE IF ~HasRecord(f) THEN {<<Unknown(f)>>}
    ELSE LET path == visited \cup {f}
             best == Max0({RecTotal(c, path) : c \in CalleeSet(f)})
         IN IF best = 0 THEN {<<f>>}
            ELSE {<<f>> \o t :
                    t \in UNION {RecChains(c, path) :
                                   c \in {d \in CalleeSet(f) : RecTotal(d, path) = best}}}

ChildTotals == {result.children[i].total : i \in 1..Len(result.children)}

C8_RecursiveEquation ==
    (Answered /\ HasRecord(result.entry)) =>
        /\ [i \in 1..Len(result.children) |-> result.children[i].callee]
              = Callees(result.entry)
        /\ \A i \in 1..Len(result.children) :
              result.children[i].total =
                 RecTotal(result.children[i].callee, {result.entry})
        /\ result.total = functions[result.entry].stack_bytes + Max0(ChildTotals)
        /\ result.total = RecTotal(result.entry, {})
        /\ result.chain \in RecChains(result.entry, {})
        /\ Callees(result.entry) = <<>> =>
              (/\ result.total = functions[result.entry].stack_bytes
               /\ result.chain = <<result.entry>>)

\* An answer built from two callees with different positive totals, one
\* of them calling back into the entry point.
C8_Witness ==
    /\ Answered
    /\ HasRecord(result.entry)
    /\ Len(result.children) = 2
    /\ result.children[1].total > 0
    /\ result.children[2].total > 0
    /\ result.children[1].total # result.children[2].total
    /\ \E i \in 1..2 : result.entry \in CalleeSet(result.children[i].callee)

(***************************************************************************)
(* C9: among the callees of a function the chain continues with the callee *)
(* whose recursive total_bytes is largest, and among several callees with  *)
(* the largest total_bytes with the first in iteration order.              *)
(***************************************************************************)
\* The first callee, in iteration order, whose total is the largest.
FirstLargest(children) ==
    CHOOSE i \in 1..Len(children) :
        /\ \A j \in 1..Len(children) : children[j].total <= children[i].total
        /\ \A j \in 1..(i - 1) : children[j].total < children[i].total

C9_ContinuesWithFirstLargest ==
    (Answered /\ HasRecord(result.entry) /\ result.children # <<>>) =>
        result.chain =
            <<result.entry>> \o result.children[FirstLargest(result.children)].path

\* The same statement where the largest total of a callee exceeds 0.
C9_HoldsWhenLargestIsPositive ==
    (/\ Answered /\ HasRecord(result.entry) /\ result.children # <<>>
     /\ result.children[FirstLargest(result.children)].total > 0) =>
        result.chain =
            <<result.entry>> \o result.children[FirstLargest(result.children)].path

(***************************************************************************)
(* C10: on an unchanged graph with an unchanged iteration order, two       *)
(* invocations of worst_case_stack with the same entry point return the    *)
(* same (total_bytes, chain), whatever queries ran in between.             *)
(***************************************************************************)
C10_Deterministic ==
    (Answered /\ memo.entry = result.entry) =>
        (result.total = memo.total /\ result.chain = memo.chain)

\* The entry point of an earlier answer has been queried again after a
\* query for another entry point, on a walk that went through a cycle.
C10_Witness ==
    /\ Answered
    /\ memo.entry = result.entry
    /\ memo.between
    /\ Len(result.chain) >= 2
    /\ OnCycle(result.entry)

(***************************************************************************)
(* C11: worst_case_stack and find_entry_points leave the graph unchanged:  *)
(* after any sequence of these queries functions and calls hold the same   *)
(* keys and values as before, and calls has no key for a queried function  *)
(* that had no callees.                                                    *)
(***************************************************************************)
Query ==
    \/ \E entry \in FuncNames : Begin(entry)
    \/ CallStep
    \/ ReturnStep
    \/ FindEntryPoints

C11_QueriesLeaveGraphUnchanged ==
    /\ [](DOMAIN calls = {e[1] : e \in edges})
    /\ [][Query => (functions' = functions /\ calls' = calls)]_vars

\* A function with a record and no callees has been walked and the entry
\* points have been asked for, on a graph that has callers.
C11_Witness ==
    /\ pc = "idle"
    /\ entry_points.answered
    /\ memo # NoMemo
    /\ HasRecord(memo.entry)
    /\ memo.entry \notin DOMAIN calls
    /\ DOMAIN calls # {}

(***************************************************************************)
(* C14: find_entry_points returns exactly the functions that have a record *)
(* and occur in no caller's callee set; when every function is called by   *)
(* something, be it only by itself, the answer is empty and no error is    *)
(* raised.                                                                 *)
(***************************************************************************)
IsCalled(f) == \E e \in edges : e[2] = f

C14_EntryPointsAreUncalledFunctions ==
    entry_points.answered =>
        /\ entry_points.names = {f \in FuncNames : HasRecord(f) /\ ~IsCalled(f)}
        /\ (\A f \in DOMAIN functions : IsCalled(f)) => entry_points.names = {}

\* No entry point is found: one function with a record is called only by
\* itself, another only by a caller without a record.
C14_Witness ==
    /\ entry_points.answered
    /\ entry_points.names = {}
    /\ \E f, g \in DOMAIN functions :
          /\ f # g
          /\ \A e \in edges : e[2] = f => e[1] = f
          /\ <<f, f>> \in edges
          /\ \E h \in FuncNames : ~HasRecord(h) /\ <<h, g>> \in edges

\* Entry points are found while other functions are called.
C14_WitnessFound ==
    /\ entry_points.answered
    /\ entry_points.names # {}
    /\ entry_points.names # DOMAIN functions

(***************************************************************************)
(* C19: after any sequence of add_function calls the graph holds at most   *)
(* one record per function name, the one most recently added under that    *)
(* name, whatever the file or line of earlier records with the name.       *)
(***************************************************************************)
AddedUnder(name) ==
    {i \in 1..Len(log) :
        log[i].op = "add_function" /\ log[i].usage.function = name}

Latest(I) == CHOOSE i \in I : \A j \in I : j <= i

C19_LastRecordWins ==
    /\ DOMAIN functions = {name \in FuncNames : AddedUnder(name) # {}}
    /\ \A name \in DOMAIN functions :
          functions[name] = log[Latest(AddedUnder(name))].usage

\* Two records with one name and different files were added, and another
\* function after them.
C19_Witness ==
    \E i, j, k \in 1..Len(log) :
        /\ i < j /\ j < k
        /\ log[i].op = "add_function" /\ log[j].op = "add_function"
        /\ log[k].op = "add_function"
        /\ log[i].usage.function = log[j].usage.function
        /\ log[i].usage.file # log[j].usage.file
        /\ log[k].usage.function # log[j].usage.function
        /\ functions[log[j].usage.function] = log[j].usage

(***************************************************************************)
(* C20: the callee set of a caller is a set: adding an edge twice leaves   *)
(* calls as after adding it once, sequences of add_call with the same      *)
(* edges in another order give the same calls mapping, add_call never      *)
(* changes functions and add_function never changes calls.                 *)
(***************************************************************************)
LoggedEdges ==
    {<<log[i].caller, log[i].callee>> :
        i \in {j \in 1..Len(log) : log[j].op = "add_call"}}

\* calls read as a mapping from callers to sets, as == on the dict reads it.
CallsAsSets == [caller \in DOMAIN calls |-> Range(calls[caller])]

C20_CallsDependOnEdgeSetOnly ==
    /\ [](/\ CallsAsSets = [caller \in {e[1] : e \in LoggedEdges} |->
                              {e[2] : e \in {x \in LoggedEdges : x[1] = caller}}]
          /\ \A caller \in DOMAIN calls :
                Len(calls[caller]) = Cardinality(Range(calls[caller])))
    /\ [][\A caller, callee \in FuncNames :
            LoggedAddCall(caller, callee) =>
               /\ functions' = functions
               /\ <<caller, callee>> \in LoggedEdges => calls' = calls]_vars
    /\ [][(\E usage \in Usages : LoggedAddFunction(usage)) => calls' = calls]_vars

\* One edge was added twice, with another edge of the same caller between.
C20_Witness ==
    /\ Len(log) = 3
    /\ log[1].op = "add_call" /\ log[2].op = "add_call"
    /\ log[3] = log[1]
    /\ log[2].caller = log[1].caller
    /\ log[2].callee # log[1].callee

(***************************************************************************)
(* C13: every solver invocation, for a known or an unknown entry point,    *)
(* returns a well-formed result without failing: total_bytes is a          *)
(* non-negative integer, the chain is not empty, and chain[0] names the    *)
(* entry point, annotated "(unknown)" when it has no record.               *)
(***************************************************************************)
EntryElement(f) == IF HasRecord(f) THEN f ELSE Unknown(f)

C13_WellFormedResult ==
    /\ pc # "failed"
    /\ Answered =>
          /\ result.total >= 0
          /\ result.chain # <<>>
          /\ result.chain[1] = EntryElement(result.entry)

\* The same statement on graphs whose records all have stack_bytes >= 0.
C13_HoldsForNonNegativeRecords ==
    /\ pc # "failed"
    /\ (Answered /\ \A f \in DOMAIN functions : functions[f].stack_bytes >= 0) =>
          /\ result.total >= 0
          /\ result.chain # <<>>
          /\ result.chain[1] = EntryElement(result.entry)

(***************************************************************************)
(* C12: adding an edge from entry to a callee it did not have never        *)
(* decreases the total_bytes reported for entry; when the new callee's     *)
(* total (as the walk from entry computes it) is not larger than the       *)
(* largest total among the callees entry already had, the reported total   *)
(* stays the same, and when it is larger the total increases or stays.     *)
(***************************************************************************)
Observed == Answered /\ before # NoBefore /\ result.entry = before.entry

BestBefore ==
    Max0({before.children[i].total : i \in 1..Len(before.children)})

NewCalleeTotals ==
    {result.children[i].total :
        i \in {j \in 1..Len(result.children) :
                  result.children[j].callee = before.callee}}

C12_AddingCalleeNeverDecreases ==
    Observed =>
        /\ result.total >= before.total
        /\ \A new \in NewCalleeTotals :
              /\ new > BestBefore => result.total >= before.total
              /\ new <= BestBefore => result.total = before.total

\* The new callee's total exceeds a positive best, and the total grew.
C12_Witness ==
    /\ Observed
    /\ BestBefore > 0
    /\ \E new \in NewCalleeTotals : new > BestBefore
    /\ result.total > before.total

\* The new callee's total is positive but not above the best: same total.
C12_WitnessUnchanged ==
    /\ Observed
    /\ \E new \in NewCalleeTotals : new > 0 /\ new <= BestBefore
    /\ result.total = before.total

(***************************************************************************)
(* Vocabulary of the parser properties.                                    *)
(***************************************************************************)
Written(text) == CHOOSE l \in SampleLines : l.text = text

\* The lines the loop has consumed.
Consumed == SubSeq(su_file, 1, lineno)

WellFormed(text) == Written(text).class = "well-formed"

Malformed(text) ==
    Written(text).class \in {"few fields", "non-numeric bytes", "bad location"}

RECURSIVE RecordsOf(_)
RecordsOf(lines) ==
    IF lines = <<>> THEN <<>>
    ELSE IF WellFormed(Head(lines))
         THEN <<Written(Head(lines)).usage>> \o RecordsOf(Tail(lines))
         ELSE RecordsOf(Tail(lines))

ParseFinished == su_file # <<>> /\ lineno = Len(su_file)

(***************************************************************************)
(* C15: a line with fewer than 3 tab-separated fields, a non-numeric byte  *)
(* field or a location that is not file:line:column:function yields no     *)
(* record and does not stop or disturb the loop: the records are exactly   *)
(* those of the well-formed lines consumed so far, in input order.         *)
(***************************************************************************)
C15_MalformedLinesSkipped ==
    /\ lineno <= Len(su_file)
    /\ usages = RecordsOf(Consumed)

\* A malformed line was consumed between two well-formed lines, and the
\* records are those of the two, in their order.
C15_Witness ==
    /\ ParseFinished
    /\ Len(su_file) = 3
    /\ WellFormed(su_file[1]) /\ Malformed(su_file[2]) /\ WellFormed(su_file[3])
    /\ usages = <<Written(su_file[1]).usage, Written(su_file[3]).usage>>

(***************************************************************************)
(* C16: a well-formed line parses to a record whose function, file, line,  *)
(* stack_bytes and qualifier are the fields the line was written from (a   *)
(* multi-part qualifier kept whole); the column is not kept and fields     *)
(* after the third are ignored.                                            *)
(***************************************************************************)
C16_RoundTrip ==
    (lineno > 0 /\ WellFormed(su_file[lineno])) =>
        /\ usages # <<>>
        /\ LET usage == usages[Len(usages)]
               written == Written(su_file[lineno]).usage
           IN /\ usage.function = written.function
              /\ usage.file = written.file
              /\ usage.line = written.line
              /\ usage.stack_bytes = written.stack_bytes
              /\ usage.qualifier = written.qualifier
              /\ DOMAIN usage = {"function", "file", "line", "stack_bytes", "qualifier"}

\* The line with the fourth field came after the line with the two-part
\* qualifier, and both records are as written.
C16_Witness ==
    /\ lineno = 2
    /\ Len(split(strip(su_file[2]), TAB)) > 3
    /\ usages = <<StackUsage("c", "mod.c", 30, 10, "dynamic,bounded"),
                  StackUsage("b", "mod.c", 20, 20, "static")>>

(***************************************************************************)
(* C17: every record the parser produces has stack_bytes >= 0; a line      *)
(* whose byte field is a negative number such as -8 yields no record.      *)
(***************************************************************************)
C17_StackBytesNonNegative ==
    \A i \in 1..Len(usages) : usages[i].stack_bytes >= 0

\* The same statement for files in which no byte field is negative.
C17_HoldsWithoutNegativeFields ==
    (\A i \in 1..lineno :
        WellFormed(su_file[i]) => Written(su_file[i]).usage.stack_bytes >= 0)
    => \A i \in 1..Len(usages) : usages[i].stack_bytes >= 0

(***************************************************************************)
(* C18: parsing yields, besides the records, a count of the skipped lines, *)
(* and records plus skipped lines are the non-empty lines of the input.    *)
(***************************************************************************)
NonEmptyLines ==
    Cardinality({i \in 1..Len(su_file) : strip(su_file[i]) # <<>>})

C18_SkippedLinesCounted ==
    ParseFinished =>
        /\ "skipped" \in DOMAIN parse_su_file
        /\ Len(parse_su_file.usages) + parse_su_file.skipped = NonEmptyLines

(***************************************************************************)
(* C21: at every recursive invocation the visited set is exactly the set   *)
(* of functions on the current path from the entry point to the function   *)
(* being visited, whatever siblings were explored before; so on a diamond  *)
(* a->b->d, a->c->d the function d contributes its whole subtree to the    *)
(* branch through b and to the branch through c.                           *)
(***************************************************************************)
PathTo(i) == {stack[j].entry_point : j \in 1..i}

C21_VisitedIsCurrentPath ==
    /\ \A i \in 1..Len(stack) : stack[i].visited = PathTo(i)
    /\ (Answered /\ result.entry = "a" /\ CalleeSet("d") \subseteq {"d"}) =>
          /\ Len(result.children) = 2
          /\ \A i \in 1..2 :
                result.children[i].total =
                   OwnBytes(result.children[i].callee) + OwnBytes("d")

\* The query for a was answered on a diamond whose d has a record and
\* calls nothing else: both branches carry the bytes of d.
C21_Witness ==
    /\ Answered
    /\ result.entry = "a"
    /\ HasRecord("d")
    /\ CalleeSet("d") \subseteq {"d"}
    /\ {result.children[i].total : i \in 1..Len(result.children)}
          = {OwnBytes("b") + OwnBytes("d"), OwnBytes("c") + OwnBytes("d")}
    /\ \A i \in 1..Len(result.children) : result.children[i].total > OwnBytes("d")

(***************************************************************************)
(* C27: the returned chain is a call path of the graph: for consecutive    *)
(* elements chain[i], chain[i+1], the "(unknown)" annotation removed,      *)
(* chain[i+1] is a member of calls[chain[i]].                              *)
(***************************************************************************)
C27_ChainFollowsCalls ==
    Answered =>
        \A i \in 1..(Len(result.chain) - 1) :
            BaseName(result.chain[i + 1]) \in CalleeSet(BaseName(result.chain[i]))

\* A chain through three functions, from an entry point that has a second
\* callee the chain does not take.
C27_Witness ==
    /\ Answered
    /\ Len(result.chain) = 3
    /\ Cardinality(CalleeSet(result.entry)) = 2

(***************************************************************************)
(* C28: total_bytes does not depend on the order in which the callee sets  *)
(* are iterated: with the same functions and the same edges every          *)
(* iteration order gives the same total_bytes; only the chain chosen       *)
(* among alternatives of equal cost may differ.                            *)
(***************************************************************************)
C28_TotalIndependentOfOrder ==
    (Answered /\ memo.entry = result.entry) => result.total = memo.total

\* Two answers for the same entry point under different iteration orders:
\* the same total, another chain.
C28_Witness ==
    /\ Answered
    /\ memo.entry = result.entry
    /\ memo.chain # result.chain
    /\ memo.total = result.total

(***************************************************************************)
(* C29: on an acyclic graph the visited set has no effect: for a function  *)
(* f with a record the total is own stack_bytes plus the maximum (0        *)
(* without callees) of the totals of its callees, each as a top-level      *)
(* query answers it.                                                       *)
(***************************************************************************)
Acyclic == \A f \in FuncNames : ~OnCycle(f)

NonNegativeRecords ==
    \A f \in DOMAIN functions : functions[f].stack_bytes >= 0

\* The totals the walk got for the callee the memo is about.
WalkTotalsOfMemo ==
    {result.children[i].total :
        i \in {j \in 1..Len(result.children) :
                  result.children[j].callee = memo.entry}}

C29_AcyclicPlainRecursion ==
    (Answered /\ Acyclic /\ HasRecord(result.entry)) =>
        /\ {result.children[i].callee : i \in 1..Len(result.children)}
              = CalleeSet(result.entry)
        /\ \A total \in WalkTotalsOfMemo : total = memo.total
        /\ result.total = functions[result.entry].stack_bytes +
              (IF ChildTotals = {} THEN 0 ELSE MaxOf(ChildTotals))

\* The same statement on graphs whose records all have stack_bytes >= 0.
C29_HoldsForNonNegativeRecords ==
    (NonNegativeRecords /\ Answered /\ Acyclic /\ HasRecord(result.entry)) =>
        /\ {result.children[i].callee : i \in 1..Len(result.children)}
              = CalleeSet(result.entry)
        /\ \A total \in WalkTotalsOfMemo : total = memo.total
        /\ result.total = functions[result.entry].stack_bytes +
              (IF ChildTotals = {} THEN 0 ELSE MaxOf(ChildTotals))

\* Without the restriction to acyclic graphs the middle part fails: on a
\* cycle the walk's total for a callee differs from the callee's own answer.
C29_WithoutAcyclic ==
    (Answered /\ HasRecord(result.entry)) =>
        \A total \in WalkTotalsOfMemo : total = memo.total

(***************************************************************************)
(* C30: for every edge f->g where f has a record, the total answered for   *)
(* f is at least the total answered for g queried on its own, on cyclic    *)
(* and on acyclic graphs.                                                  *)
(***************************************************************************)
C30_CallerAtLeastCallee ==
    (/\ Answered
     /\ HasRecord(result.entry)
     /\ memo.entry \in CalleeSet(result.entry)) =>
        result.total >= memo.total

\* The statement restricted to graphs whose records all have
\* stack_bytes >= 0; it fails as well, on a cycle through the edge.
C30_OnNonNegativeRecords ==
    (/\ NonNegativeRecords
     /\ Answered
     /\ HasRecord(result.entry)
     /\ memo.entry \in CalleeSet(result.entry)) =>
        result.total >= memo.total

\* For an edge f->g whose callee g does not lead back to f, the total for
\* f is at least stack_bytes of f plus the total answered for g.
OffCycleEdge ==
    /\ Answered
    /\ HasRecord(result.entry)
    /\ memo.entry \in CalleeSet(result.entry)
    /\ result.entry \notin Reachable(memo.entry)

C30_CallerCoversCalleeOffCycles ==
    OffCycleEdge =>
        result.total >= functions[result.entry].stack_bytes + memo.total

\* Such an edge, into a callee that lies on a cycle of its own and has a
\* positive total.
C30_Witness ==
    /\ OffCycleEdge
    /\ OnCycle(memo.entry)
    /\ memo.total > 0

(***************************************************************************)
(* Vocabulary of the builder properties: what a file was written from.     *)
(***************************************************************************)
LayoutOf(content) == CHOOSE layout \in FileLayouts : FileText(layout) = content

\* The identifiers that stand before an opening parenthesis after the
\* header of the k-th definition of a file: in its own body, ...
OwnCandidates(layout, k) == layout[k].body

\* ... and from there to the end of the file.
RegionCandidates(layout, k) ==
    UNION {layout[j].body : j \in k..Len(layout)} \cup
    {layout[j].name : j \in (k + 1)..Len(layout)}

(***************************************************************************)
(* C22: after the builder, no callee set contains if, while, for, switch,  *)
(* return, sizeof or printf, and every other identifier followed by an     *)
(* opening parenthesis in the scanned region of a detected function is a   *)
(* callee of that function.                                                *)
(***************************************************************************)
C22_ExcludedNeverCalleesOthersAlways ==
    /\ \A caller \in DOMAIN calls :
          CalleeSet(caller) \cap
             {"if", "while", "for", "switch", "return", "sizeof", "printf"} = {}
    /\ BuilderFinished =>
          \A i \in 1..Len(sources) :
              LET layout == LayoutOf(sources[i])
              IN \A k \in 1..Len(layout) :
                    \A id \in RegionCandidates(layout, k) :
                        id \notin {"if", "while", "for", "switch", "return",
                                   "sizeof", "printf"}
                        => id \in CalleeSet(layout[k].name)

\* The builder ran over a file whose first function m has only keywords
\* and printf before parentheses in its own body.
C22_Witness ==
    /\ BuilderFinished
    /\ Len(sources) = 1
    /\ LayoutOf(sources[1])[1].name = "m"
    /\ CalleeSet("m") = {"g", "h"}

EntryNames == {"a"} \cup Range(critical_functions)

\* A step of the solver, or of find_entry_points.
SolverOrDiscovery ==
    \/ \E entry \in EntryNames : DoBegin(entry)
    \/ CallStep
    \/ ReturnStep
    \/ DoFindEntryPoints

\* Every file has been parsed, every record collected has been added, and
\* if there is a source directory the builder has gone through it and its
\* calls are the graph's.
GraphBuilt ==
    /\ main.has_graph
    /\ main.index = Len(main.su_files)
    /\ main.added = Len(main.all_usages)
    /\ \A i \in 1..Len(main.all_usages) :
          main.all_usages[i].function \in DOMAIN functions
    /\ main.args.source_dir => BuilderFinished /\ main.installed

\* C24: in every run of main, a step of worst_case_stack or of
\* find_entry_points is taken only when the graph is built: all the records
\* parsed have been added with add_function and the builder has gone
\* through the source directory and its calls have been installed.
C24_NoQueryBeforeGraphBuilt == [][SolverOrDiscovery => GraphBuilt]_vars

\* The walk from a has reached its callee c, which the builder found in
\* the source directory.
C24_Witness ==
    /\ main.pc = "analyzing"
    /\ main.installed
    /\ Len(stack) = 2
    /\ stack[2].entry_point = "c"

\* The records of the first n files, as they were written.
RECURSIVE WrittenUpTo(_, _)
WrittenUpTo(files, n) ==
    IF n = 0 THEN <<>> ELSE WrittenUpTo(files, n - 1) \o files[n].records

\* C25: in a run over several .su files, a file that cannot be opened,
\* read or parsed is reported on stderr and the run goes on: between two
\* files the records collected are those of all the files gone through
\* that could be read, and the run leaves the loop only when every file
\* has been gone through.
C25_FailedFileDoesNotStopRun ==
    (main.pc \notin {"collect", "parsing"} /\ main.su_files # <<>>) =>
        /\ main.all_usages = WrittenUpTo(main.su_files, main.index)
        /\ \A i \in 1..main.index :
              ~main.su_files[i].readable =>
                  Message("Failed to parse", i) \in Range(main.stderr)
        /\ main.pc # "parse" => main.index = Len(main.su_files)
        /\ main.returned # "exception"

\* A run has ended with a report: its first file could not be read, a later
\* one held records.
C25_Witness ==
    /\ main.pc = "done"
    /\ main.returned = "0"
    /\ Len(main.su_files) > 1
    /\ ~main.su_files[1].readable
    /\ main.su_files[Len(main.su_files)].records # <<>>

\* What the caller of a run that has ended is given: the value returned and
\* the last message on stderr.
Outcome ==
    [returned |-> main.returned,
     reported |-> IF main.stderr = <<>> THEN Message("", "")
                  ELSE main.stderr[Len(main.stderr)]]

EmptyResult ==
    [returned |-> "1", reported |-> Message("No stack usage data collected", "")]

MissingInput ==
    { [returned |-> "1", reported |-> Message(text, "request")] :
        text \in {".su file not found", "Target directory not found",
                  "Stack usage directory not found"} }

\* The file or directory asked for does not exist.
RequestMissing == main.args.mode # "none" /\ ~main.args.exists

\* There are files, and none of them holds a record that can be used.
NoUsableRecords ==
    /\ main.args.found # <<>>
    /\ \A i \in 1..Len(main.args.found) : main.args.found[i].records = <<>>

====
